---------------------------- MODULE Spec2Model ----------------------------
(***************************************************************************)
(* GreenPipeline: the CLI (src/src/greenpipeline/cli.py) and the energy    *)
(* estimator (src/core/estimator.py).                                      *)
(*                                                                         *)
(* Four views of the program are checked:                                  *)
(*   Spec         one CLI process: run_command, compare_locations, with    *)
(*                varied locations, workload outcomes and durations;       *)
(*   SpecHistory  one CLI process appending past the 100-entry cap and     *)
(*                listing the history with varied limits;                  *)
(*   SpecConc     two CLI invocations racing on the history file, with     *)
(*                _save_to_history and show_history taken statement by     *)
(*                statement;                                               *)
(*   SpecMeasure  EnergyEstimator.measure_execution: the main flow and     *)
(*                the sampling thread, statement by statement.             *)
(*                                                                         *)
(* Python floats are modelled as exact rationals [num, den] in lowest      *)
(* terms; round(x, n) is the exact round-half-even to n decimals.  A       *)
(* division by zero is the value ZeroDivision (den = 0).                   *)
(***************************************************************************)
EXTENDS Integers, Sequences, FiniteSets, TLC

VARIABLES
    \* ---- the CLI process and the history file
    now,            \* datetime.now(): a clock that ticks at each run_command
    file,           \* ~/.greenpipeline/history.json: [exists, text]
    appended,       \* history variable: every entry handed to _save_to_history
    op,             \* the last CLI operation: "none", "run", "compare", "history"
    arg,            \* its argument (save_history / limit), as a record
    ret,            \* run_command's return value (a sequence of 0 or 1 result_data)
    report,         \* compare_locations' printed comparison lines
    listing,        \* show_history's printed entry lines
    err,            \* the exception that ended the operation, or "none"
    \* ---- two racing CLI invocations (SpecConc)
    pc,             \* per process: the statement it is at
    local,          \* per process: its local `history` list
    pending,        \* per process: the serialized text not yet written
    obs,            \* per process: what its last json.load observed
    committed,      \* history variable: the logs that were written completely
    \* ---- measure_execution (SpecMeasure)
    mpc,            \* main flow: the statement it is at
    tpc,            \* sampling thread: the statement it is at
    running,        \* sample_metrics.running (absent reads as True)
    cpu_samples,
    memory_samples,
    func_outcome,   \* what func(*args, **kwargs) does: "returns" or "raises"
    timed_out,      \* whether sample_thread.join(timeout=1) ran out of time
    finish_count,   \* history variable: len(cpu_samples) when func finished
    duration,
    avg_cpu,
    avg_memory_gb,
    metrics,        \* a sequence of 0 or 1 EnergyMetrics
    returned,       \* a sequence of 0 or 1 (result, metrics)
    tdp             \* self.tdp, by the platform

cliOut   == <<op, arg, ret, report, listing, err>>
cliVars  == <<now, file, appended, cliOut>>
concVars == <<pc, local, pending, obs, committed>>
measVars == <<mpc, tpc, running, cpu_samples, memory_samples, func_outcome,
              timed_out, finish_count, duration, avg_cpu, avg_memory_gb,
              metrics, returned, tdp>>
vars     == <<cliVars, concVars, measVars>>

---------------------------------------------------------------------------
(* Bounds of the model.                                                    *)

\* Spec: ticks of the clock (run_command calls, compare_locations takes 4)
MaxClock == 5
\* Spec: entries saved to the history
MaxSaved == 1
\* SpecHistory: appends, beyond the cap of 100
MaxAppends == 102
\* SpecHistory: show_history limits 0..MaxLimit (and the cap, and the cap + 1)
MaxLimit == 11
\* SpecConc: appends started by the racing invocations together
MaxConcAppends == 2
\* SpecMeasure: samples the thread takes
MaxSamples == 2

---------------------------------------------------------------------------
(* Exact arithmetic standing for Python's float arithmetic.                *)

Abs(n) == IF n < 0 THEN -n ELSE n

RECURSIVE GCD(_, _)
GCD(a, b) == IF b = 0 THEN Abs(a) ELSE GCD(b, a % b)

QBy(n, d, g) == [num |-> n \div g, den |-> d \div g]
Q(n, d) == QBy(n, d, GCD(n, d))
QInt(n) == [num |-> n, den |-> 1]
ZeroDivision == [num |-> 0, den |-> 0]

QMulBy(a, b, g1, g2) ==
    [num |-> (a.num \div g1) * (b.num \div g2),
     den |-> (a.den \div g2) * (b.den \div g1)]

QMul(a, b) ==
    IF a.den = 0 \/ b.den = 0 THEN ZeroDivision
    ELSE IF a.num = 0 \/ b.num = 0 THEN QInt(0)
    ELSE QMulBy(a, b, GCD(a.num, b.den), GCD(b.num, a.den))

\* a / b; b = 0 raises ZeroDivisionError
QDiv(a, b) ==
    IF a.den = 0 \/ b.den = 0 \/ b.num = 0 THEN ZeroDivision
    ELSE IF b.num < 0 THEN QMul(a, [num |-> -b.den, den |-> -b.num])
    ELSE QMul(a, [num |-> b.den, den |-> b.num])

QAddBy(a, b, g) ==
    Q(a.num * (b.den \div g) + b.num * (a.den \div g), a.den * (b.den \div g))

QAdd(a, b) ==
    IF a.den = 0 \/ b.den = 0 THEN ZeroDivision ELSE QAddBy(a, b, GCD(a.den, b.den))

QSub(a, b) == QAdd(a, [num |-> -b.num, den |-> b.den])

RECURSIVE Pow10(_)
Pow10(n) == IF n = 0 THEN 1 ELSE 10 * Pow10(n - 1)

HalfEven(q, r, m) ==
    IF 2 * r < m THEN q
    ELSE IF 2 * r > m THEN q + 1
    ELSE IF q % 2 = 0 THEN q ELSE q + 1

RoundHalfEven(n, m) == HalfEven(n \div m, n % m, m)

\* round(x, digits) for x >= 0
RoundScaled(s, digits) == Q(RoundHalfEven(s.num, s.den), Pow10(digits))
Round(x, digits) == RoundScaled(QMul(x, QInt(Pow10(digits))), digits)

Min(a, b) == IF a < b THEN a ELSE b
Max(a, b) == IF a > b THEN a ELSE b

\* seq[start:] of Python, for any integer start
PySliceFrom(seq, start) ==
    SubSeq(seq,
           (IF start < 0 THEN Max(Len(seq) + start, 0) ELSE Min(start, Len(seq))) + 1,
           Len(seq))

---------------------------------------------------------------------------
(* cli.py: run_command                                                     *)

Commands == {"npm test"}
Locations == {"CO", "GLOBAL"}
Outcomes == {"zero", "nonzero", "fault"}
\* time.time() - start_time, in milliseconds
DurationsMs == {20, 10000}

Seconds(ms) == Q(ms, 1000)

CarbonIntensity(location) ==
    IF location = "DE" THEN 420 ELSE IF location = "CO" THEN 165 ELSE 389

\* mutant: only a non-zero exit status counts as a failure
Success_FaultSucceeds(outcome) == outcome # "nonzero"

\* result.returncode == 0, and False when subprocess.run raised
Success(outcome) == outcome = "zero"

EnergyJoules(d) == QMul(d, QInt(25))
EnergyKwh(energy_joules) == QDiv(energy_joules, QInt(3600000))
CarbonGrams(energy_kwh, carbon_intensity) == QMul(energy_kwh, QInt(carbon_intensity))

JoulesDigits == 2
KwhDigits == 6
CarbonDigits == 4

StoredJoules(energy_joules) == Round(energy_joules, JoulesDigits)
StoredKwh(energy_kwh) == Round(energy_kwh, KwhDigits)
StoredCarbon(carbon_grams) == Round(carbon_grams, CarbonDigits)

\* step 4 of run_command: result_data
BuildResult(ts, command, location, success, d, carbon_intensity, energy_joules, energy_kwh, carbon_grams) ==
    [timestamp |-> ts,
     command |-> command,
     location |-> location,
     success |-> success,
     duration_seconds |-> Round(d, 2),
     metrics |-> [cpu_percent |-> QInt(45),
                  memory_mb |-> QInt(512),
                  energy_joules |-> StoredJoules(energy_joules),
                  energy_kwh |-> StoredKwh(energy_kwh),
                  carbon_grams |-> StoredCarbon(carbon_grams),
                  carbon_intensity |-> carbon_intensity],
     equivalents |-> [smartphone_charges |->
                          Round(QDiv(QMul(carbon_grams, QInt(1000)), Q(62, 1000)), 1),
                      km_driven |-> Round(QDiv(carbon_grams, QInt(192)), 3)]]

\* steps 1 to 4 of run_command, the workload having ended with `outcome` after
\* `ms` milliseconds
ResultData(command, location, outcome, ms, ts) ==
    BuildResult(ts, command, location, Success(outcome), Seconds(ms),
                CarbonIntensity(location),
                EnergyJoules(Seconds(ms)),
                EnergyKwh(EnergyJoules(Seconds(ms))),
                CarbonGrams(EnergyKwh(EnergyJoules(Seconds(ms))),
                            CarbonIntensity(location)))

---------------------------------------------------------------------------
(* The history file: json.dump / json.load, token by token.                *)

Cap == 100

TokOpen == [tok |-> "["]
TokClose == [tok |-> "]"]
TokObj(e) == [tok |-> "obj", val |-> e]

\* json.dump(history, f, indent=2): the text written
Dump(history) ==
    <<TokOpen>> \o [i \in 1..Len(history) |-> TokObj(history[i])] \o <<TokClose>>

WellFormed(text) ==
    /\ Len(text) >= 2
    /\ text[1] = TokOpen
    /\ text[Len(text)] = TokClose
    /\ \A i \in 2..(Len(text) - 1) : text[i].tok = "obj"

\* json.load(f): the list, or JSONDecodeError
Load(text) ==
    IF WellFormed(text)
    THEN [ok |-> TRUE, entries |-> [i \in 1..(Len(text) - 2) |-> text[i + 1].val]]
    ELSE [ok |-> FALSE, entries |-> <<>>]

MissingFile == [exists |-> FALSE, text |-> <<>>]
FileOf(history) == [exists |-> TRUE, text |-> Dump(history)]

\* mutant: history[:100], which keeps the oldest entries
Truncate_KeepsOldest(history) == SubSeq(history, 1, Min(Len(history), Cap))

\* history = history[-100:]
Truncate(history) == PySliceFrom(history, -Cap)

\* _save_to_history, run to its end by one process: the file and the exception
SaveLoaded(f, data, loaded) ==
    IF ~loaded.ok
    THEN [file |-> f, err |-> "JSONDecodeError"]
    ELSE [file |-> FileOf(Truncate(Append(loaded.entries, data))), err |-> "none"]

SaveToHistory(f, data) ==
    SaveLoaded(f, data,
               IF f.exists THEN Load(f.text) ELSE [ok |-> TRUE, entries |-> <<>>])

\* the log a reader of the whole file gets (missing storage reads as empty)
Log(f) == IF f.exists THEN Load(f.text).entries ELSE <<>>

---------------------------------------------------------------------------
(* cli.py: the operations of one CLI process, each run to its end.         *)

NoArg == [none |-> TRUE]

\* run_command from its result_data on: step 6 (the save) and the return
RunFinish(data, save_history, outcome, saved) ==
    /\ now' = now + 1
    /\ file' = saved.file
    /\ appended' = IF save_history /\ saved.err = "none"
                   THEN Append(appended, data) ELSE appended
    /\ op' = "run"
    /\ arg' = [save_history |-> save_history, workload |-> outcome]
    /\ ret' = IF saved.err = "none" THEN <<data>> ELSE <<>>
    /\ report' = <<>>
    /\ listing' = <<>>
    /\ err' = saved.err

RunSave(data, save_history, outcome) ==
    RunFinish(data, save_history, outcome,
              IF save_history THEN SaveToHistory(file, data)
              ELSE [file |-> file, err |-> "none"])

RunCommand(locs, outs, durs, saves) ==
    \E command \in Commands, location \in locs, outcome \in outs,
       ms \in durs, save_history \in saves :
        RunSave(ResultData(command, location, outcome, ms, now + 1),
                save_history, outcome)

\* compare_locations' list of (name, code)
CompareLocationList ==
    << [name |-> "Colombia", code |-> "CO"],
       [name |-> "Alemania", code |-> "DE"],
       [name |-> "California", code |-> "US-CA"],
       [name |-> "Francia", code |-> "FR"] >>

\* mutant: run_command's default, save_history=True
CompareSaveHistory_Default == TRUE

\* the save_history argument compare_locations passes to run_command
CompareSaveHistory == FALSE

\* what the workload does in the runs of one comparison
CompareOutcomes ==
    {[i \in 1..Len(CompareLocationList) |-> o] : o \in Outcomes}
        \cup {<<"zero", "nonzero", "fault", "zero">>}

\* the first loop: run_command per location, from the i-th on
RECURSIVE CompareRuns(_, _, _, _)
CompareRuns(command, outs, durs, i) ==
    IF i > Len(CompareLocationList) THEN <<>>
    ELSE <<ResultData(command, CompareLocationList[i].code, outs[i], durs[i], now + i)>>
             \o CompareRuns(command, outs, durs, i + 1)

\* the file after run_command saved each of datas, in order
RECURSIVE SaveAll(_, _), SaveRest(_, _)
SaveAll(f, datas) ==
    IF datas = <<>> THEN [file |-> f, err |-> "none"]
    ELSE SaveRest(SaveToHistory(f, Head(datas)), Tail(datas))
SaveRest(one, datas) ==
    IF one.err # "none" THEN one ELSE SaveAll(one.file, datas)

DiffPercent(carbon, baseline) ==
    QMul(QDiv(QSub(carbon, baseline), baseline), QInt(100))

\* the second loop: the lines printed from the i-th result on; a division by
\* zero ends the loop (and the command) there
RECURSIVE CompareLines(_, _, _), ComparePrint(_, _, _, _)
CompareLines(results, baseline, i) ==
    IF i > Len(results) THEN <<>>
    ELSE ComparePrint(results, baseline, i,
                      DiffPercent(results[i].metrics.carbon_grams, baseline))
ComparePrint(results, baseline, i, diff_percent) ==
    IF diff_percent = ZeroDivision THEN <<>>
    ELSE << [name |-> CompareLocationList[i].name,
             carbon |-> results[i].metrics.carbon_grams,
             diff_percent |-> diff_percent] >>
           \o CompareLines(results, baseline, i + 1)

CompareFinish(results, saved, lines) ==
    /\ now' = now + Len(CompareLocationList)
    /\ file' = saved.file
    /\ appended' = IF CompareSaveHistory /\ saved.err = "none"
                   THEN appended \o results ELSE appended
    /\ op' = "compare"
    /\ arg' = NoArg
    /\ ret' = <<>>
    /\ listing' = <<>>
    /\ report' = IF saved.err # "none" THEN <<>> ELSE lines
    /\ err' = IF saved.err # "none" THEN saved.err
              ELSE IF Len(lines) < Len(results) THEN "ZeroDivisionError"
              ELSE "none"

CompareReport(results) ==
    CompareFinish(results,
                  IF CompareSaveHistory THEN SaveAll(file, results)
                  ELSE [file |-> file, err |-> "none"],
                  CompareLines(results, results[1].metrics.carbon_grams, 1))

CompareLocations ==
    /\ now + Len(CompareLocationList) <= MaxClock
    /\ \E command \in Commands, outs \in CompareOutcomes,
          durs \in [1..Len(CompareLocationList) -> DurationsMs] :
        CompareReport(CompareRuns(command, outs, durs, 1))

\* one printed line of show_history
HistoryLine(entry) ==
    [timestamp |-> entry.timestamp,
     command |-> entry.command,
     duration |-> entry.duration_seconds,
     carbon |-> entry.metrics.carbon_grams]

\* history[-limit:]
Shown(history, limit) == PySliceFrom(history, -limit)

RECURSIVE Lines(_)
Lines(entries) ==
    IF entries = <<>> THEN <<>> ELSE <<HistoryLine(Head(entries))>> \o Lines(Tail(entries))

RECURSIVE TotalCarbon(_)
TotalCarbon(entries) ==
    IF entries = <<>> THEN QInt(0)
    ELSE QAdd(Head(entries).metrics.carbon_grams, TotalCarbon(Tail(entries)))

RECURSIVE TotalEnergy(_)
TotalEnergy(entries) ==
    IF entries = <<>> THEN QInt(0)
    ELSE QAdd(Head(entries).metrics.energy_joules, TotalEnergy(Tail(entries)))

ShowLoaded(limit, loaded) ==
    /\ op' = "history"
    /\ arg' = [limit |-> limit]
    /\ ret' = <<>>
    /\ listing' = IF file.exists /\ loaded.ok
                  THEN Lines(Shown(loaded.entries, limit)) ELSE <<>>
    /\ report' = IF file.exists /\ loaded.ok
                 THEN << [count |-> Len(loaded.entries),
                          total_carbon |-> TotalCarbon(loaded.entries),
                          total_energy |-> TotalEnergy(loaded.entries)] >>
                 ELSE <<>>
    /\ err' = IF file.exists /\ ~loaded.ok THEN "JSONDecodeError" ELSE "none"
    /\ UNCHANGED <<now, file, appended>>

ShowHistory(limits) ==
    \E limit \in limits : ShowLoaded(limit, Load(file.text))

---------------------------------------------------------------------------
(* Initial states.                                                         *)

Procs == {"p1", "p2"}
NoObs == [seen |-> FALSE, ok |-> TRUE, entries |-> <<>>]

\* a CLI process about to act; the history file is missing or holds an empty log
InitCli ==
    /\ now = 0
    /\ file \in {MissingFile, FileOf(<<>>)}
    /\ appended = <<>>
    /\ op = "none"
    /\ arg = NoArg
    /\ ret = <<>>
    /\ report = <<>>
    /\ listing = <<>>
    /\ err = "none"

InitConc ==
    /\ pc = [p \in Procs |-> "idle"]
    /\ local = [p \in Procs |-> [data |-> <<>>, history |-> <<>>]]
    /\ pending = [p \in Procs |-> <<>>]
    /\ obs = [p \in Procs |-> NoObs]
    /\ committed = {Log(file)}

\* measure_execution about to be called
InitMeasure(outcomes, tdps) ==
    /\ mpc = "start"
    /\ tpc = "unstarted"
    /\ running = TRUE
    /\ cpu_samples = <<>>
    /\ memory_samples = <<>>
    /\ func_outcome \in outcomes
    /\ timed_out = FALSE
    /\ finish_count = 0
    /\ duration = QInt(0)
    /\ avg_cpu = QInt(0)
    /\ avg_memory_gb = QInt(0)
    /\ metrics = <<>>
    /\ returned = <<>>
    /\ tdp \in tdps

Init == InitCli /\ InitConc /\ InitMeasure({"returns"}, {65})

---------------------------------------------------------------------------
(* Spec: one CLI process, varied inputs.                                   *)

Run ==
    /\ now < MaxClock
    /\ Len(appended) < MaxSaved
    /\ RunCommand(Locations, Outcomes, DurationsMs, BOOLEAN)
    /\ UNCHANGED <<concVars, measVars>>

Compare ==
    /\ CompareLocations
    /\ UNCHANGED <<concVars, measVars>>

Next == Run \/ Compare

Spec == Init /\ [][Next]_vars

---------------------------------------------------------------------------
(* SpecHistory: one CLI process filling the history past its cap.          *)

Limits == (0..MaxLimit) \cup {Cap, Cap + 1}

HistRun ==
    /\ now < MaxAppends
    /\ RunCommand({"GLOBAL"}, {"zero"}, {10000}, {TRUE})
    /\ UNCHANGED <<concVars, measVars>>

History ==
    /\ ShowHistory(Limits)
    /\ UNCHANGED <<concVars, measVars>>

NextHistory == HistRun \/ History

SpecHistory == Init /\ [][NextHistory]_vars

---------------------------------------------------------------------------
(* SpecConc: two CLI invocations at a time, sharing the history file, with *)
(* _save_to_history and show_history taken statement by statement.  The    *)
(* file is written through each process's own offset, token by token (any  *)
(* flush boundary of the buffered writer is one of these prefixes).        *)

TokHole == [tok |-> "\\0"]

RECURSIVE Holes(_)
Holes(n) == IF n <= 0 THEN <<>> ELSE <<TokHole>> \o Holes(n - 1)

\* write(2) of one token at offset off
WriteAt(text, off, tok) ==
    IF off < Len(text) THEN [text EXCEPT ![off + 1] = tok]
    ELSE text \o Holes(off - Len(text)) \o <<tok>>

\* main: `run`; run_command up to its call of _save_to_history(result_data)
ConcStartRun(p) ==
    /\ pc[p] = "idle"
    /\ now < MaxConcAppends
    /\ now' = now + 1
    /\ local' = [local EXCEPT ![p] =
                    [data |-> ResultData("npm test", "GLOBAL", "zero", 10000, now + 1),
                     history |-> <<>>]]
    /\ pc' = [pc EXCEPT ![p] = "s_exists"]
    /\ UNCHANGED <<file, appended, pending, obs, committed, cliOut, measVars>>

\* _save_to_history: if self.results_file.exists()
ConcExists(p) ==
    /\ pc[p] = "s_exists"
    /\ pc' = [pc EXCEPT ![p] = IF file.exists THEN "s_load" ELSE "s_open"]
    /\ UNCHANGED <<now, file, appended, local, pending, obs, committed, cliOut, measVars>>

ConcLoaded(p, loaded, next) ==
    /\ obs' = [obs EXCEPT ![p] = [seen |-> TRUE, ok |-> loaded.ok,
                                  entries |-> loaded.entries]]
    /\ local' = [local EXCEPT ![p].history = loaded.entries]
    \* a JSONDecodeError ends the invocation
    /\ pc' = [pc EXCEPT ![p] = IF loaded.ok THEN next ELSE "idle"]
    /\ UNCHANGED <<now, file, appended, pending, committed, cliOut, measVars>>

\* _save_to_history: history = json.load(f)
ConcLoad(p) ==
    /\ pc[p] = "s_load"
    /\ ConcLoaded(p, Load(file.text), "s_open")

ConcOpened(p, history) ==
    /\ local' = [local EXCEPT ![p].history = history]
    /\ pending' = [pending EXCEPT ![p] = Dump(history)]
    /\ file' = [exists |-> TRUE, text |-> <<>>]
    /\ pc' = [pc EXCEPT ![p] = "s_dump"]
    /\ UNCHANGED <<now, appended, obs, committed, cliOut, measVars>>

\* _save_to_history: append, history[-100:], open(self.results_file, "w")
ConcOpen(p) ==
    /\ pc[p] = "s_open"
    /\ ConcOpened(p, Truncate(Append(local[p].history, local[p].data)))

\* _save_to_history: json.dump(history, f, indent=2), the next token reaching the file
ConcWrite(p) ==
    /\ pc[p] = "s_dump"
    /\ pending[p] # <<>>
    /\ file' = [file EXCEPT !.text =
                   WriteAt(file.text,
                           Len(Dump(local[p].history)) - Len(pending[p]),
                           Head(pending[p]))]
    /\ pending' = [pending EXCEPT ![p] = Tail(pending[p])]
    /\ UNCHANGED <<now, appended, pc, local, obs, committed, cliOut, measVars>>

\* _save_to_history: the end of the with block, and the return
ConcClose(p) ==
    /\ pc[p] = "s_dump"
    /\ pending[p] = <<>>
    /\ appended' = Append(appended, local[p].data)
    /\ committed' = committed \cup {local[p].history}
    /\ pc' = [pc EXCEPT ![p] = "idle"]
    /\ UNCHANGED <<now, file, local, pending, obs, cliOut, measVars>>

\* main: `history`
ConcStartHistory(p) ==
    /\ pc[p] = "idle"
    /\ pc' = [pc EXCEPT ![p] = "h_exists"]
    /\ UNCHANGED <<now, file, appended, local, pending, obs, committed, cliOut, measVars>>

\* show_history: if not self.results_file.exists(): return
ConcHistoryExists(p) ==
    /\ pc[p] = "h_exists"
    /\ pc' = [pc EXCEPT ![p] = IF file.exists THEN "h_load" ELSE "idle"]
    /\ UNCHANGED <<now, file, appended, local, pending, obs, committed, cliOut, measVars>>

\* show_history: history = json.load(f), and the printing that follows
ConcHistoryLoad(p) ==
    /\ pc[p] = "h_load"
    /\ ConcLoaded(p, Load(file.text), "idle")

NextConc ==
    \/ \E p \in Procs : ConcStartRun(p)
    \/ \E p \in Procs : ConcExists(p)
    \/ \E p \in Procs : ConcLoad(p)
    \/ \E p \in Procs : ConcOpen(p)
    \/ \E p \in Procs : ConcWrite(p)
    \/ \E p \in Procs : ConcClose(p)
    \/ \E p \in Procs : ConcStartHistory(p)
    \/ \E p \in Procs : ConcHistoryExists(p)
    \/ \E p \in Procs : ConcHistoryLoad(p)

SpecConc == Init /\ [][NextConc]_vars

\* C7: while one process performs a history append, a reader of the history
\* file at any interleaving observes either the complete log before the append
\* or the complete log after it, never an empty or partially written file.
C7_ReaderSeesCompleteLog ==
    \A p \in Procs :
        obs[p].seen => /\ obs[p].ok
                       /\ obs[p].entries \in committed

---------------------------------------------------------------------------
(* estimator.py: EnergyEstimator                                           *)

CpuPowerFactor == Q(6, 10)
CpuBaseline == Q(4, 10)
RamWattsPerGb == Q(375, 1000)
\* EnergyEstimator(): carbon_intensity's default
DefaultCarbonIntensity == 475
Tdps == {65, 15}

\* psutil.cpu_percent(interval=0.1), psutil.virtual_memory().used / 1024**3
CpuValues == {0, 50}
MemValues == {4}
\* time.time() - start_time, in seconds
MeasuredDurations == {2}

RECURSIVE SumOf(_)
SumOf(samples) == IF samples = <<>> THEN 0 ELSE Head(samples) + SumOf(Tail(samples))

\* mutant: the average without its guard
Average_NoGuard(samples) == QDiv(QInt(SumOf(samples)), QInt(Len(samples)))

\* sum(samples) / len(samples) if samples else 0
Average(samples) ==
    IF samples # <<>> THEN QDiv(QInt(SumOf(samples)), QInt(Len(samples))) ELSE QInt(0)

EnergyMetrics(d, cpu_percent, memory_gb, energy_joules, carbon_grams) ==
    [duration_seconds |-> d,
     cpu_percent |-> cpu_percent,
     memory_mb |-> QMul(memory_gb, QInt(1024)),
     energy_joules |-> energy_joules,
     carbon_grams |-> carbon_grams,
     sci_score |-> carbon_grams]

PowerWatts(cpu_percent, memory_gb) ==
    QAdd(QMul(QInt(tdp),
              QAdd(QMul(QDiv(cpu_percent, QInt(100)), CpuPowerFactor), CpuBaseline)),
         QMul(memory_gb, RamWattsPerGb))

\* _calculate_energy
CalculateEnergy(d, cpu_percent, memory_gb) ==
    EnergyMetrics(d, cpu_percent, memory_gb,
                  QMul(PowerWatts(cpu_percent, memory_gb), d),
                  CarbonGrams(EnergyKwh(QMul(PowerWatts(cpu_percent, memory_gb), d)),
                              DefaultCarbonIntensity))

---------------------------------------------------------------------------
(* SpecMeasure: measure_execution, the main flow and the sampling thread.  *)

otherVars == <<cliVars, concVars>>

\* cpu_samples = [], memory_samples = [], start_time; sample_thread.start()
MStart ==
    /\ mpc = "start"
    /\ mpc' = "call"
    /\ tpc' = "check"
    /\ UNCHANGED <<running, cpu_samples, memory_samples, func_outcome, timed_out,
                   finish_count, duration, avg_cpu, avg_memory_gb, metrics,
                   returned, tdp, otherVars>>

\* result = func(*args, **kwargs), which returns or raises
MCall ==
    /\ mpc = "call"
    /\ mpc' = "stop"
    /\ finish_count' = Len(cpu_samples)
    /\ UNCHANGED <<tpc, running, cpu_samples, memory_samples, func_outcome, timed_out,
                   duration, avg_cpu, avg_memory_gb, metrics, returned, tdp,
                   otherVars>>

\* finally: sample_metrics.running = False
MStop ==
    /\ mpc = "stop"
    /\ mpc' = "join"
    /\ running' = FALSE
    /\ UNCHANGED <<tpc, cpu_samples, memory_samples, func_outcome, timed_out,
                   finish_count, duration, avg_cpu, avg_memory_gb, metrics,
                   returned, tdp, otherVars>>

\* after the finally block: func's exception goes on, or line 82 is next
AfterJoin == IF func_outcome = "raises" THEN "raised" ELSE "duration"

\* mutant: the main flow does not wait for the thread
MJoinExited_NoWait ==
    /\ mpc = "join"
    /\ mpc' = AfterJoin
    /\ timed_out' = FALSE
    /\ UNCHANGED <<tpc, running, cpu_samples, memory_samples, func_outcome,
                   finish_count, duration, avg_cpu, avg_memory_gb, metrics,
                   returned, tdp, otherVars>>

\* sample_thread.join(timeout=1): the thread has ended
MJoinExited ==
    /\ mpc = "join"
    /\ tpc \in {"exited", "dead"}
    /\ mpc' = AfterJoin
    /\ timed_out' = FALSE
    /\ UNCHANGED <<tpc, running, cpu_samples, memory_samples, func_outcome,
                   finish_count, duration, avg_cpu, avg_memory_gb, metrics,
                   returned, tdp, otherVars>>

\* sample_thread.join(timeout=1): the second passed and the thread is alive
MJoinTimeout ==
    /\ mpc = "join"
    /\ tpc \notin {"exited", "dead"}
    /\ mpc' = AfterJoin
    /\ timed_out' = TRUE
    /\ UNCHANGED <<tpc, running, cpu_samples, memory_samples, func_outcome,
                   finish_count, duration, avg_cpu, avg_memory_gb, metrics,
                   returned, tdp, otherVars>>

\* duration = time.time() - start_time
MDuration ==
    /\ mpc = "duration"
    /\ mpc' = "avg_cpu"
    /\ \E d \in MeasuredDurations : duration' = QInt(d)
    /\ UNCHANGED <<tpc, running, cpu_samples, memory_samples, func_outcome, timed_out,
                   finish_count, avg_cpu, avg_memory_gb, metrics, returned, tdp,
                   otherVars>>

\* avg_cpu = sum(cpu_samples) / len(cpu_samples) if cpu_samples else 0
MAvgCpu ==
    /\ mpc = "avg_cpu"
    /\ mpc' = "avg_mem"
    /\ avg_cpu' = Average(cpu_samples)
    /\ UNCHANGED <<tpc, running, cpu_samples, memory_samples, func_outcome, timed_out,
                   finish_count, duration, avg_memory_gb, metrics, returned, tdp,
                   otherVars>>

\* avg_memory_gb = sum(memory_samples) / len(memory_samples) if memory_samples else 0
MAvgMem ==
    /\ mpc = "avg_mem"
    /\ mpc' = "calc"
    /\ avg_memory_gb' = Average(memory_samples)
    /\ UNCHANGED <<tpc, running, cpu_samples, memory_samples, func_outcome, timed_out,
                   finish_count, duration, avg_cpu, metrics, returned, tdp,
                   otherVars>>

\* metrics = self._calculate_energy(...); return result, metrics
MCalc ==
    /\ mpc = "calc"
    /\ mpc' = "done"
    /\ metrics' = <<CalculateEnergy(duration, avg_cpu, avg_memory_gb)>>
    /\ returned' = << [result |-> "func_result",
                       metrics |-> CalculateEnergy(duration, avg_cpu, avg_memory_gb)] >>
    /\ UNCHANGED <<tpc, running, cpu_samples, memory_samples, func_outcome, timed_out,
                   finish_count, duration, avg_cpu, avg_memory_gb, tdp, otherVars>>

mainVars == <<mpc, running, func_outcome, timed_out, finish_count, duration,
              avg_cpu, avg_memory_gb, metrics, returned, tdp>>

\* while getattr(sample_metrics, "running", True)
TCheck ==
    /\ tpc = "check"
    /\ ~running \/ Len(cpu_samples) < MaxSamples
    /\ tpc' = IF running THEN "cpu" ELSE "exited"
    /\ UNCHANGED <<cpu_samples, memory_samples, mainVars, otherVars>>

\* cpu_samples.append(psutil.cpu_percent(interval=0.1))
TCpu ==
    /\ tpc = "cpu"
    /\ tpc' = "mem"
    /\ \E c \in CpuValues : cpu_samples' = Append(cpu_samples, c)
    /\ UNCHANGED <<memory_samples, mainVars, otherVars>>

\* mutant: the thread's exception ends the main flow too
TCpuFault_Propagates ==
    /\ tpc = "cpu"
    /\ tpc' = "dead"
    /\ mpc' = "raised"
    /\ UNCHANGED <<running, cpu_samples, memory_samples, func_outcome, timed_out,
                   finish_count, duration, avg_cpu, avg_memory_gb, metrics,
                   returned, tdp, otherVars>>

\* psutil.cpu_percent raises: the exception ends the thread's run()
TCpuFault ==
    /\ tpc = "cpu"
    /\ tpc' = "dead"
    /\ UNCHANGED <<cpu_samples, memory_samples, mainVars, otherVars>>

\* memory_samples.append(psutil.virtual_memory().used / (1024**3))
TMem ==
    /\ tpc = "mem"
    /\ tpc' = "sleep"
    /\ \E m \in MemValues : memory_samples' = Append(memory_samples, m)
    /\ UNCHANGED <<cpu_samples, mainVars, otherVars>>

\* psutil.virtual_memory raises: the exception ends the thread's run()
TMemFault ==
    /\ tpc = "mem"
    /\ tpc' = "dead"
    /\ UNCHANGED <<cpu_samples, memory_samples, mainVars, otherVars>>

\* time.sleep(0.1)
TSleep ==
    /\ tpc = "sleep"
    /\ tpc' = "check"
    /\ UNCHANGED <<cpu_samples, memory_samples, mainVars, otherVars>>

NextMeasure ==
    \/ MStart
    \/ MCall
    \/ MStop
    \/ MJoinExited
    \/ MJoinTimeout
    \/ MDuration
    \/ MAvgCpu
    \/ MAvgMem
    \/ MCalc
    \/ TCheck
    \/ TCpu
    \/ TCpuFault
    \/ TMem
    \/ TMemFault
    \/ TSleep

InitMeasureSpec == InitCli /\ InitConc /\ InitMeasure({"returns", "raises"}, Tdps)

SpecMeasure == InitMeasureSpec /\ [][NextMeasure]_vars

---------------------------------------------------------------------------
(* Claims about the CLI.                                                   *)

Last(s) == s[Len(s)]

\* C1: after any sequence of appends starting from a missing or empty log, the
\* persisted log holds at most 100 entries, and they are exactly the most
\* recent min(n, 100) appended entries, in insertion order.
C1_HistoryBounded ==
    LET n == Len(appended)
        k == Min(n, Cap)
    IN  /\ file.exists => WellFormed(file.text)
        /\ Len(Log(file)) <= Cap
        /\ Log(file) = SubSeq(appended, n - k + 1, n)

C1_Witness ==
    /\ Len(appended) > Cap
    /\ Len(Log(file)) = Cap
    /\ Log(file)[1] = appended[Len(appended) - Cap + 1]

\* C2: whatever the workload does (exit status zero, non-zero, or a fault while
\* launching it), run_command returns one Measurement, and appends it to the
\* history when save_history is true; for the non-zero and fault outcomes the
\* Measurement has success = false.
C2_MeasuredOnEveryOutcome ==
    op = "run" =>
        /\ err = "none"
        /\ Len(ret) = 1
        /\ ret[1].timestamp = now
        /\ arg.workload # "zero" => ret[1].success = FALSE
        /\ arg.save_history => /\ Log(file) # <<>>
                               /\ Last(Log(file)) = ret[1]

C2_Witness ==
    /\ op = "run"
    /\ arg.workload = "fault"
    /\ arg.save_history
    /\ Len(ret) = 1
    /\ ret[1].success = FALSE
    /\ Last(Log(file)) = ret[1]

\* C3: in every run of compare_locations, for every workload duration, the entry
\* of the first (baseline) location is reported with a delta of exactly 0%, and
\* the comparison completes without an error.
C3_BaselineDeltaZero ==
    op = "compare" =>
        /\ err = "none"
        /\ Len(report) = Len(CompareLocationList)
        /\ report[1].diff_percent = QInt(0)

\* C4: compare_locations leaves the persisted history log as it was, whatever
\* the workload outcomes are.
C4_CompareKeepsHistory == [][op' = "compare" => file' = file]_vars

C4_Witness ==
    /\ op = "compare"
    /\ err = "none"
    /\ Len(report) = Len(CompareLocationList)
    /\ Len(Log(file)) > 0

\* C5: for every persisted log and every limit >= 0, show_history(limit) lists
\* exactly the most recent min(limit, len(log)) entries, in chronological order.
C5_ListsMostRecent ==
    (op = "history" /\ err = "none") =>
        LET log == Log(file)
            n == Len(log)
            k == Min(arg.limit, n)
        IN  listing = [i \in 1..k |-> HistoryLine(log[n - k + i])]

\* C6: in every persisted Measurement, carbon_grams = energy_kwh *
\* carbon_intensity exactly, with energy_kwh = energy_joules / 3600000.
C6_StoredFieldsExact ==
    \A i \in 1..Len(Log(file)) :
        LET m == Log(file)[i].metrics
        IN  /\ m.carbon_grams = CarbonGrams(m.energy_kwh, m.carbon_intensity)
            /\ m.energy_kwh = EnergyKwh(m.energy_joules)

---------------------------------------------------------------------------
(* Claims about measure_execution.                                         *)

ThreadEnded == tpc \in {"exited", "dead"}

\* C8 as stated: the main flow never reads cpu_samples or memory_samples while
\* the sampling thread can still append to them.
C8_NoReadWhileSampling ==
    mpc \in {"avg_cpu", "avg_mem"} => tpc \notin {"cpu", "mem"}

\* C8 as amended: the averages and the energy conversion are computed only after
\* the main flow has cleared the running flag and join(timeout=1) has returned;
\* the sampling thread has then ended unless the join ran out of time.
C8_ReadAfterBoundedJoin ==
    mpc \in {"duration", "avg_cpu", "avg_mem", "calc", "done"} =>
        /\ running = FALSE
        /\ ThreadEnded \/ timed_out

C8_Witness ==
    /\ mpc = "avg_cpu"
    /\ ~timed_out
    /\ tpc = "exited"
    /\ Len(cpu_samples) = MaxSamples

\* C9: a fault of the sampling thread, wherever in its loop, does not reach the
\* monitored operation or the main flow: only func's own exception ends the
\* main flow, the join of the dead thread returns, and what measure_execution
\* returns is func's result with the metrics of samples collected before the
\* fault.
C9_SamplerFaultContained ==
    tpc = "dead" =>
        /\ mpc = "raised" => func_outcome = "raises"
        /\ mpc = "join" => ENABLED MJoinExited
        /\ mpc = "done" =>
            /\ func_outcome = "returns"
            /\ Len(returned) = 1
            /\ returned[1].result = "func_result"
            /\ \E k \in 0..Len(cpu_samples), j \in 0..Len(memory_samples) :
                   returned[1].metrics =
                       CalculateEnergy(duration,
                                       Average(SubSeq(cpu_samples, 1, k)),
                                       Average(SubSeq(memory_samples, 1, j)))

C9_Witness ==
    /\ tpc = "dead"
    /\ mpc = "done"
    /\ Len(returned) = 1
    /\ Len(cpu_samples) = 2
    /\ Len(memory_samples) = 1
    /\ returned[1].metrics.cpu_percent = Average(cpu_samples)

\* C10 as stated: when the monitored operation finishes before the sampling
\* thread has appended any sample, measure_execution reports cpu_percent = 0 and
\* memory_mb = 0.
C10_ZeroWhenFuncFinishesFirst ==
    (mpc = "done" /\ finish_count = 0) =>
        /\ returned[1].metrics.cpu_percent = QInt(0)
        /\ returned[1].metrics.memory_mb = QInt(0)

\* C10 as amended: when a sample list is empty at the time its average is
\* computed, the average is 0 and no division error is raised; with both
\* averages 0, measure_execution reports cpu_percent = 0 and memory_mb = 0.
C10_ZeroSamplesAverageZero ==
    [][/\ (mpc = "avg_cpu" /\ mpc' = "avg_mem" /\ cpu_samples = <<>>)
            => avg_cpu' = QInt(0)
       /\ (mpc = "avg_mem" /\ mpc' = "calc" /\ memory_samples = <<>>)
            => avg_memory_gb' = QInt(0)
       /\ (mpc = "calc" /\ mpc' = "done" /\ avg_cpu = QInt(0)
                /\ avg_memory_gb = QInt(0))
            => /\ returned'[1].metrics.cpu_percent = QInt(0)
               /\ returned'[1].metrics.memory_mb = QInt(0)
               /\ returned'[1].metrics.energy_joules.den # 0]_vars

C10_Witness ==
    /\ mpc = "done"
    /\ cpu_samples = <<>>
    /\ memory_samples = <<>>
    /\ Len(returned) = 1
    /\ returned[1].metrics.cpu_percent = QInt(0)
    /\ returned[1].metrics.memory_mb = QInt(0)

====
